---------------------------- MODULE Spec2Model ----------------------------
(***************************************************************************)
(* Model of the data quality validation engine of the Coventry DW pipeline *)
(* (src/src/data_quality/validator.py, class DataQualityValidator).        *)
(*                                                                         *)
(* One DataQualityValidator is constructed with a data-quality             *)
(* configuration (rules, coverage_threshold).  validate_data(df, source)   *)
(* is modelled statement group by statement group: the five checkers run   *)
(* in the order of the code, then the aggregation, the threshold           *)
(* comparison and the quarantine step.  pc is the position inside the      *)
(* call; an exception that leaves validate_data ends the call in           *)
(* pc = "raised" with raisedBy naming the statement group that raised.     *)
(*                                                                         *)
(* Scores are Python floats in the code.  They are modelled as exact       *)
(* fractions in lowest terms; within the bounds of the model every         *)
(* comparison the code makes has the same outcome on the exact value.      *)
(*                                                                         *)
(* Time is counted in whole hours, with the part of the clock below one    *)
(* second kept apart (micro).  The model follows a validator through       *)
(* single calls and through pairs of calls on the same dataset and         *)
(* source_name, with the clock advancing between the two.                  *)
(***************************************************************************)
EXTENDS Integers, Sequences, FiniteSets, TLC

VARIABLES
    config,         \* self.quality_config: [rules, has_threshold, threshold]
    pc,             \* position inside validate_data
    df,             \* the DataFrame handed to validate_data
    schemaOutcome,  \* what the schema collaborator does for (df, source_name)
    now,            \* datetime.utcnow(), in hours
    micro,          \* the sub-second part of datetime.utcnow()
    checks,         \* validation_results["checks"]
    result,         \* overall_score, passed, quarantined_rows, total_rows
    raisedBy,       \* the statement group whose exception left validate_data
    written,        \* quarantine files written by the current call
    firstCall,      \* checks, quarantine files and time of the first call of a pair
    report,         \* the report built by generate_quality_report
    mode,           \* what the ingester / orchestrator is running
    ppc,            \* position inside that call or run
    sources,        \* config.get_data_sources() of the run
    idx,            \* index of the loop over sources or Bronze files
    call,           \* the ingest_csv / ingest_json call in progress
    attempts,       \* outcomes of the attempts of that call so far
    callResult,     \* what the call ended with
    ingestion,      \* results of run_ingestion_pipeline
    transformation, \* status of the transformation stage
    quality,        \* quality_results of _run_quality_assessment
    assessed,       \* the Bronze files assessed and what each assessment did
    pipeline        \* pipeline_results of run_full_pipeline

vars ==
    <<config, pc, df, schemaOutcome, now, micro, checks, result, raisedBy,
      written, firstCall, report>>

---------------------------------------------------------------------------
(* Bounds of the model.                                                    *)

\* Largest number of rows of an enumerated dataset.
MaxRows == 2

\* Largest number of configured business rules.
MaxRules == 2

\* Number of rows of the datasets used for the pass-rate boundary.
BoundaryRows == 100

\* The value of datetime.utcnow() at the first call, in hours since the epoch.
NowStart == 1000

\* Largest number of configured data sources.
MaxSources == 2

\* The clock advances at most MaxTicks times, by a day or by a fraction of a
\* second.
MaxTicks == 1

---------------------------------------------------------------------------
(* Float arithmetic, as exact fractions in lowest terms.                   *)

RECURSIVE GCD(_, _)
GCD(a, b) == IF b = 0 THEN a ELSE GCD(b, a % b)

\* n / d for n >= 0 and d > 0.
Frac(n, d) ==
    LET g == GCD(n, d) IN [num |-> n \div g, den |-> d \div g]

Zero == Frac(0, 1)
One == Frac(1, 1)

FAdd(a, b) == Frac(a.num * b.den + b.num * a.den, a.den * b.den)

\* a / k for an integer k > 0.
FDivInt(a, k) == Frac(a.num, a.den * k)

\* a >= b
FGe(a, b) == a.num * b.den >= b.num * a.den

\* a < b
FLt(a, b) == a.num * b.den < b.num * a.den

RECURSIVE FSum(_)
FSum(s) == IF s = <<>> THEN Zero ELSE FAdd(Head(s), FSum(Tail(s)))

---------------------------------------------------------------------------
(* Cell values: null (None / NaN), a number, a string that is no date, a   *)
(* string (or timestamp) that parses as the date t.                        *)

Null == [kind |-> "null", v |-> 0]
Num(n) == [kind |-> "num", v |-> n]
Str == [kind |-> "str", v |-> 0]
DateAt(t) == [kind |-> "date", v |-> t]

\* Series.notna()
NotNa(x) == x.kind # "null"

\* A timestamp one hour old and one 200 hours (more than 8 days) old.
DNew == NowStart - 1
DOld == NowStart - 200

\* NaT, and a parsed timestamp.
NaT == [nat |-> TRUE, t |-> 0]
Ts(t) == [nat |-> FALSE, t |-> t]

---------------------------------------------------------------------------
(* DataFrames: n rows, the set of columns present, and each column's       *)
(* values.  The index is the default RangeIndex, as read_parquet and       *)
(* read_csv produce it.                                                    *)

Columns == {"amount", "txn_date", "_ingestion_timestamp"}

\* col.startswith('_')
StartsWithUnderscore(c) == c \in {"_ingestion_timestamp"}

\* 'date' in col.lower()
HasDateInName(c) == c \in {"txn_date"}

AmountValues == {Null, Num(5), Str}
DateValues == {DateAt(DOld), DateAt(DNew), Str}
ParsedDates == {DateAt(DOld), DateAt(DNew)}

MkDf(n, P, a, d, i) ==
    [n |-> n, present |-> P,
     data |-> [c \in Columns |->
                 IF c \notin P THEN <<>>
                 ELSE IF c = "amount" THEN a
                 ELSE IF c = "txn_date" THEN d
                 ELSE [k \in 1..n |-> i]]]

\* txn_date holds dates, or the same non-date string in every row.
DateColumnsOfLen(n) == [1..n -> ParsedDates] \cup { [k \in 1..n |-> Str] }

\* The ingestion timestamp is one scalar broadcast to every row
\* (src/src/ingestion/ingest.py line 80).
DatasetsOfLen(n) ==
    { MkDf(n, P, a, d, i) :
        P \in SUBSET Columns,
        a \in [1..n -> AmountValues],
        d \in DateColumnsOfLen(n),
        i \in DateValues }

Datasets == UNION { DatasetsOfLen(n) : n \in 0..MaxRows }

\* Datasets with both business columns: amount null or numeric per row, or
\* a string in every row; txn_date one value in every row.
SimpleDatasetsOfLen(n) ==
    { MkDf(n, {"amount", "txn_date"}, a, [k \in 1..n |-> d], Str) :
        a \in [1..n -> {Null, Num(5)}] \cup { [k \in 1..n |-> Str] },
        d \in {DateAt(DNew), Str} }

SimpleDatasets == UNION { SimpleDatasetsOfLen(n) : n \in 0..MaxRows }

\* One column amount of BoundaryRows rows, the first k of them non-null.
BoundaryDatasets ==
    { MkDf(BoundaryRows, {"amount"},
           [j \in 1..BoundaryRows |-> IF j <= k THEN Num(5) ELSE Null],
           <<>>, Str) : k \in 0..BoundaryRows }

\* One column txn_date whose rows hold a date before, at the start of or at
\* the end of the range of DateInRange, a string that is no date, or null.
RangeValues ==
    {DateAt(DOld), DateAt(DNew - 24), DateAt(DNew), Str, Null}

RangeDatasets ==
    UNION { { MkDf(n, {"txn_date"}, <<>>, d, Str) : d \in [1..n -> RangeValues] } :
            n \in 0..MaxRows }

\* One column amount of BoundaryRows rows: distinct numbers, but for the last
\* m rows, which repeat the first.
DuplicateBoundaryDatasets ==
    { MkDf(BoundaryRows, {"amount"},
           [j \in 1..BoundaryRows |-> IF j <= BoundaryRows - m THEN Num(j) ELSE Num(1)],
           <<>>, Str) : m \in 0..2 }

\* The datasets that are validated twice: no row or one row.
RepeatDatasets == DatasetsOfLen(0) \cup DatasetsOfLen(1)

\* len(df)
Len_df(d) == d.n

\* column in df.columns
HasColumn(d, c) == c \in d.present

\* [col for col in df.columns if not col.startswith('_')]
BusinessColumns(d) == { c \in d.present : ~StartsWithUnderscore(c) }


---------------------------------------------------------------------------
(* Business rules of the configuration.  keys is the set of keys the rule  *)
(* dictionary holds: rule[k] raises KeyError for a key that is absent.     *)

RuleKeys == {"name", "column", "check", "value", "min_date", "max_date"}

MkRule(name, column, check, value, lo, hi, keys) ==
    [name |-> name, column |-> column, check |-> check, value |-> value,
     min_date |-> lo, max_date |-> hi, keys |-> keys]

BaseKeys == {"name", "column", "check"}

AmountNotNull ==
    MkRule("amount_not_null", "amount", "not_null", 0, Null, Null, BaseKeys)
AmountPositive ==
    MkRule("amount_positive", "amount", "greater_than", 0, Null, Null,
           BaseKeys \cup {"value"})
DateInRange ==
    MkRule("date_in_range", "txn_date", "date_range", 0,
           DateAt(DNew - 24), DateAt(DNew), BaseKeys \cup {"min_date", "max_date"})
CustomerNotNull ==
    MkRule("customer_not_null", "customer_id", "not_null", 0, Null, Null, BaseKeys)
AmountRegex ==
    MkRule("amount_regex", "amount", "regex", 0, Null, Null, BaseKeys)
IngestNotNull ==
    MkRule("ingest_not_null", "_ingestion_timestamp", "not_null", 0, Null, Null,
           BaseKeys)
NoName ==
    MkRule("", "amount", "not_null", 0, Null, Null, {"column", "check"})
NoColumn ==
    MkRule("no_column", "", "not_null", 0, Null, Null, {"name", "check"})
NoCheck ==
    MkRule("no_check", "amount", "", 0, Null, Null, {"name", "column"})
GreaterNoValue ==
    MkRule("greater_no_value", "amount", "greater_than", 0, Null, Null, BaseKeys)
RangeNoMin ==
    MkRule("range_no_min", "txn_date", "date_range", 0, Null, DateAt(DNew),
           BaseKeys \cup {"max_date"})
RangeBadMax ==
    MkRule("range_bad_max", "txn_date", "date_range", 0, DateAt(DOld), Str,
           BaseKeys \cup {"min_date", "max_date"})

\* The rules the longer rule lists are made of.
RuleCatalog ==
    {AmountNotNull, AmountPositive, DateInRange, CustomerNotNull,
     NoName, NoColumn, NoCheck, GreaterNoValue, RangeNoMin, RangeBadMax}

SeqsUpTo(S, n) == UNION { [1..m -> S] : m \in 0..n }

\* Rule lists tried on every dataset.
BaseRuleLists ==
    { <<>>, <<AmountNotNull>>, <<AmountPositive, DateInRange>>,
      <<IngestNotNull, AmountRegex>> }

\* Rule lists tried on the simple datasets.
RuleLists == SeqsUpTo(RuleCatalog, MaxRules)

\* coverage_threshold of the configuration; when the key is absent the
\* code falls back to 0.95.
DefaultThreshold == Frac(95, 100)
Thresholds == { Frac(4, 5) }

---------------------------------------------------------------------------
(* Schema check: SchemaManager.validate_dataframe and _validate_schema.    *)

\* What the schema collaborator does for the dataset and its source:
\*   "valid"    a schema is stored and the dataset conforms
\*   "invalid"  a schema is stored and pandera raises SchemaError
\*   "missing"  load_schema finds no schema file
\*   "raises"   loading or building the schema raises another exception
SchemaOutcomes == {"valid", "invalid", "missing", "raises"}

ValidateDataframe(outcome) ==
    [raised |-> outcome = "raises",
     is_valid |-> outcome = "valid",
     details |-> IF outcome = "missing" THEN "Schema not found"
                 ELSE IF outcome = "valid" THEN "valid" ELSE "SchemaError"]

ValidateSchema(outcome) ==
    LET r == ValidateDataframe(outcome) IN
    IF r.raised
      THEN [present |-> TRUE, passed |-> FALSE, score |-> Zero,
            error |-> TRUE, details |-> "exception"]
      ELSE [present |-> TRUE, passed |-> r.is_valid,
            score |-> IF r.is_valid THEN One ELSE Zero,
            error |-> FALSE, details |-> r.details]

---------------------------------------------------------------------------
(* Business rules: _validate_business_rules.                               *)

\* The type a value has inside an object column.
PyType(x) == IF x.kind = "num" THEN "number" ELSE "str"

\* The column holds a str value: comparing it with a number raises TypeError.
HasStrValue(d, c) ==
    \E i \in 1..d.n : d.data[c][i].kind \in {"str", "date"}

\* pd.to_datetime(x, errors='coerce') of one value.
ToDatetimeCoerce(x) ==
    IF x.kind = "date" THEN Ts(x.v)
    ELSE IF x.kind = "num" THEN Ts(0)
    ELSE NaT

\* pd.to_datetime(x) of a scalar raises for a string that is no date.
ScalarDateRaises(x) == x.kind = "str"

\* passed_rows / total_rows if total_rows > 0 else 0
RowScore(passed_rows, total_rows) ==
    IF total_rows > 0 THEN Frac(passed_rows, total_rows) ELSE Zero

\* df[column].notna().sum()
NotNullCount(d, c) == Cardinality({ i \in 1..d.n : NotNa(d.data[c][i]) })

\* (df[column] > value).sum() on a column without str values
GreaterCount(d, c, value) ==
    Cardinality({ i \in 1..d.n :
        d.data[c][i].kind = "num" /\ d.data[c][i].v > value })

\* Mutant: the upper bound is exclusive.
InRangeCountExclusive(d, c, lo, hi) ==
    Cardinality({ i \in 1..d.n :
        LET t == ToDatetimeCoerce(d.data[c][i]) IN
        /\ ~t.nat /\ ~lo.nat /\ ~hi.nat
        /\ t.t >= lo.t /\ t.t < hi.t })

\* ((date_col >= min_date) & (date_col <= max_date)).sum()
InRangeCount(d, c, lo, hi) ==
    Cardinality({ i \in 1..d.n :
        LET t == ToDatetimeCoerce(d.data[c][i]) IN
        /\ ~t.nat /\ ~lo.nat /\ ~hi.nat
        /\ t.t >= lo.t /\ t.t <= hi.t })

\* The per-rule threshold of line 155.
RuleThreshold == Frac(95, 100)

ErrorResult(rule, msg) ==
    [rule |-> rule.name, passed |-> FALSE, scored |-> FALSE, score |-> Zero,
     passed_rows |-> 0, total_rows |-> 0, error |-> msg]

\* Mutant: the pass rate must exceed the threshold.
ScoredResultStrict(rule, passed_rows, total_rows, score) ==
    [rule |-> rule.name, passed |-> ~FGe(RuleThreshold, score), scored |-> TRUE,
     score |-> score, passed_rows |-> passed_rows, total_rows |-> total_rows,
     error |-> ""]

ScoredResult(rule, passed_rows, total_rows, score) ==
    [rule |-> rule.name, passed |-> FGe(score, RuleThreshold), scored |-> TRUE,
     score |-> score, passed_rows |-> passed_rows, total_rows |-> total_rows,
     error |-> ""]

\* Mutant: an unknown check kind is an error entry.
UnknownCheckIsError(d, rule) == ErrorResult(rule, "Unknown check")

\* The else branch of lines 148-151: score = 0.0, passed_rows = 0,
\* total_rows = len(df), and the result is appended like a scored one.
UnknownCheck(d, rule) == ScoredResult(rule, 0, Len_df(d), Zero)

\* rule["name"], rule["column"], rule["check"] before the try block.
RuleLookupRaises(rule) == ~({"name", "column", "check"} \subseteq rule.keys)

\* The body of the loop for one rule whose three lookups succeeded.
RuleResult(d, rule) ==
    IF ~HasColumn(d, rule.column)
      THEN ErrorResult(rule, "Column not found")
    ELSE IF rule.check = "not_null"
      THEN LET p == NotNullCount(d, rule.column) IN
           ScoredResult(rule, p, Len_df(d), RowScore(p, Len_df(d)))
    ELSE IF rule.check = "greater_than"
      THEN IF "value" \notin rule.keys THEN ErrorResult(rule, "KeyError")
           ELSE IF HasStrValue(d, rule.column) THEN ErrorResult(rule, "TypeError")
           ELSE LET p == GreaterCount(d, rule.column, rule.value) IN
                ScoredResult(rule, p, Len_df(d), RowScore(p, Len_df(d)))
    ELSE IF rule.check = "date_range"
      THEN IF "min_date" \notin rule.keys THEN ErrorResult(rule, "KeyError")
           ELSE IF ScalarDateRaises(rule.min_date) THEN ErrorResult(rule, "ValueError")
           ELSE IF "max_date" \notin rule.keys THEN ErrorResult(rule, "KeyError")
           ELSE IF ScalarDateRaises(rule.max_date) THEN ErrorResult(rule, "ValueError")
           ELSE LET p == InRangeCount(d, rule.column,
                                      ToDatetimeCoerce(rule.min_date),
                                      ToDatetimeCoerce(rule.max_date)) IN
                ScoredResult(rule, p, Len_df(d), RowScore(p, Len_df(d)))
    ELSE UnknownCheck(d, rule)

\* Mutant: a rule on a missing column ends the loop.
RECURSIVE RuleLoopBreak(_, _, _, _)
RuleLoopBreak(d, rules, results, total) ==
    IF rules = <<>>
      THEN [raised |-> FALSE, rule_results |-> results, total_score |-> total]
    ELSE IF RuleLookupRaises(Head(rules))
      THEN [raised |-> TRUE, rule_results |-> results, total_score |-> total]
    ELSE LET r == RuleResult(d, Head(rules)) IN
         IF ~HasColumn(d, Head(rules).column)
           THEN [raised |-> FALSE, rule_results |-> Append(results, r),
                 total_score |-> total]
           ELSE RuleLoopBreak(d, Tail(rules), Append(results, r),
                              IF r.scored THEN FAdd(total, r.score) ELSE total)

\* for rule in rules: ...   (results and total_score are the accumulators)
RECURSIVE RuleLoop(_, _, _, _)
RuleLoop(d, rules, results, total) ==
    IF rules = <<>>
      THEN [raised |-> FALSE, rule_results |-> results, total_score |-> total]
    ELSE IF RuleLookupRaises(Head(rules))
      THEN [raised |-> TRUE, rule_results |-> results, total_score |-> total]
    ELSE LET r == RuleResult(d, Head(rules)) IN
         RuleLoop(d, Tail(rules), Append(results, r),
                  IF r.scored THEN FAdd(total, r.score) ELSE total)

\* The threshold of line 172.
BusinessThreshold == Frac(95, 100)

\* Mutant: an empty rule list scores 0.
BusinessScoreEmptyIsZero(total, rules) ==
    IF rules # <<>> THEN FDivInt(total, Len(rules)) ELSE Zero

\* total_score / len(rules) if rules else 1.0
BusinessScore(total, rules) ==
    IF rules # <<>> THEN FDivInt(total, Len(rules)) ELSE One

ValidateBusinessRules(d, rules) ==
    LET loop == RuleLoop(d, rules, <<>>, Zero)
        overall == BusinessScore(loop.total_score, rules)
    IN [raised |-> loop.raised,
        res |-> [present |-> TRUE, passed |-> FGe(overall, BusinessThreshold),
                 score |-> overall, error |-> FALSE,
                 rule_results |-> loop.rule_results]]

---------------------------------------------------------------------------
(* Completeness: _validate_completeness.                                   *)

\* The threshold of line 204.
CompletenessThreshold == Frac(9, 10)

\* Mutant: the ratio of the null values.
ColumnCompletenessOfNulls(d, c) ==
    RowScore(Len_df(d) - NotNullCount(d, c), Len_df(d))

\* non_null_count / total_count if total_count > 0 else 0
ColumnCompleteness(d, c) == RowScore(NotNullCount(d, c), Len_df(d))

\* total_completeness after the loop over the columns cols
RECURSIVE TotalCompleteness(_, _)
TotalCompleteness(d, cols) ==
    IF cols = {} THEN Zero
    ELSE LET c == CHOOSE x \in cols : TRUE IN
         FAdd(ColumnCompleteness(d, c), TotalCompleteness(d, cols \ {c}))

\* Mutant: the total of the column ratios, not divided by their number.
OverallCompletenessNoDivision(d) ==
    LET cols == BusinessColumns(d) IN
    IF cols # {} THEN TotalCompleteness(d, cols) ELSE One

\* total_completeness / len(business_columns) if business_columns else 1.0
OverallCompleteness(d) ==
    LET cols == BusinessColumns(d) IN
    IF cols # {} THEN FDivInt(TotalCompleteness(d, cols), Cardinality(cols))
    ELSE One

\* Mutant: the rows an earlier call quarantined are gone from the dataset.
ValidateCompletenessOfRowsLeft(d) ==
    LET left == IF firstCall.written # <<>>
                  THEN [d EXCEPT !.n = 0, !.data = [c \in Columns |-> <<>>]]
                  ELSE d
        overall == OverallCompleteness(left)
    IN [present |-> TRUE, passed |-> FGe(overall, CompletenessThreshold),
        score |-> overall, error |-> FALSE,
        column_completeness |->
           [c \in BusinessColumns(left) |->
               [completeness |-> ColumnCompleteness(left, c),
                non_null_count |-> NotNullCount(left, c),
                total_count |-> Len_df(left)]]]

ValidateCompleteness(d) ==
    LET overall == OverallCompleteness(d) IN
    [present |-> TRUE, passed |-> FGe(overall, CompletenessThreshold),
     score |-> overall, error |-> FALSE,
     column_completeness |->
        [c \in BusinessColumns(d) |->
            [completeness |-> ColumnCompleteness(d, c),
             non_null_count |-> NotNullCount(d, c),
             total_count |-> Len_df(d)]]]

---------------------------------------------------------------------------
(* Consistency: _validate_consistency.                                     *)

\* The duplicate-rate limit of line 229 and the threshold of line 261.
DuplicateLimit == Frac(1, 100)

\* Mutant: one passing sub-check is enough.
ConsistencyThresholdOfOne == Frac(1, 2)

ConsistencyThreshold == Frac(9, 10)

\* df.empty
IsEmpty(d) == d.n = 0 \/ d.present = {}

\* Rows i and j agree on every column of cols (nulls compare equal).
SameOn(d, cols, i, j) == \A c \in cols : d.data[c][i] = d.data[c][j]

\* Mutant: every row that has an equal row is counted (keep=False).
DuplicateCountAllCopies(d, cols) ==
    IF IsEmpty(d) THEN 0
    ELSE Cardinality({ i \in 1..d.n :
                         \E j \in (1..d.n) \ {i} : SameOn(d, cols, i, j) })

\* df.duplicated(subset=cols).sum(): rows equal to an earlier row.
DuplicateCount(d, cols) ==
    IF IsEmpty(d) THEN 0
    ELSE Cardinality({ i \in 1..d.n : \E j \in 1..(i - 1) : SameOn(d, cols, i, j) })

\* What DataFrame.duplicated does with an empty subset on a frame that is not
\* empty depends on the pandas version: it raises ValueError, or marks no row.
EmptySubsetOutcomes == {"raise", "none"}

\* df[column].dtype == 'object'
IsObjectColumn(d, c) == HasStrValue(d, c)

\* df[column].dropna().apply(type).unique()
SampleTypes(d, c) ==
    { PyType(d.data[c][i]) : i \in { k \in 1..d.n : NotNa(d.data[c][k]) } }

\* The columns reported in type_issues.
TypeIssues(d) ==
    { c \in d.present :
        /\ ~StartsWithUnderscore(c)
        /\ IsObjectColumn(d, c)
        /\ Cardinality(SampleTypes(d, c)) > 1 }

ValidateConsistency(d, emptySubset) ==
    LET cols == BusinessColumns(d)
        raises == cols = {} /\ ~IsEmpty(d) /\ emptySubset = "raise"
        dups == IF cols = {} THEN 0 ELSE DuplicateCount(d, cols)
        rate == IF Len_df(d) > 0 THEN Frac(dups, Len_df(d)) ELSE Zero
        dupCheck == [check |-> "duplicate_records", duplicate_count |-> dups,
                     duplicate_rate |-> rate, passed |-> FLt(rate, DuplicateLimit),
                     type_issues |-> {}]
        typeCheck == [check |-> "type_consistency", duplicate_count |-> 0,
                      duplicate_rate |-> Zero, passed |-> TypeIssues(d) = {},
                      type_issues |-> TypeIssues(d)]
        cks == <<dupCheck, typeCheck>>
        passedChecks == Cardinality({ k \in 1..Len(cks) : cks[k].passed })
        score == Frac(passedChecks, Len(cks))
    IN [raised |-> raises,
        res |-> [present |-> TRUE, passed |-> FGe(score, ConsistencyThreshold),
                 score |-> score, error |-> FALSE, consistency_checks |-> cks]]

---------------------------------------------------------------------------
(* Freshness: _validate_freshness.                                         *)

\* The limits of lines 281 and 294 and the threshold of line 308.
IngestionHoursLimit == 24
BusinessDaysLimit == 7
HoursPerDay == 24
FreshnessThreshold == Frac(8, 10)

\* pd.to_datetime(df[col]) raises when a value is a string that is no date.
ColumnDateRaises(d, c) == \E i \in 1..d.n : d.data[c][i].kind = "str"

\* pd.to_datetime(df[col]).max(): NaT when no value is a date.
Latest(d, c) ==
    LET ts == { ToDatetimeCoerce(d.data[c][i]).t :
                  i \in { k \in 1..d.n : ~ToDatetimeCoerce(d.data[c][k]).nat } }
    IN IF ts = {} THEN NaT ELSE Ts(CHOOSE t \in ts : \A u \in ts : u <= t)

\* The ingestion_freshness entry.
IngestionCheck(d, t) ==
    LET latest == Latest(d, "_ingestion_timestamp") IN
    [check |-> "ingestion_freshness",
     passed |-> ~latest.nat /\ t - latest.t < IngestionHoursLimit]

\* The <date_col>_freshness entry.
BusinessDateCheck(d, c, t) ==
    LET latest == Latest(d, c) IN
    [check |-> c,
     passed |-> ~latest.nat /\ (t - latest.t) \div HoursPerDay < BusinessDaysLimit]

\* Column order of the frame.
ColumnOrder == <<"amount", "txn_date", "_ingestion_timestamp">>

IsDateColumn(d, c) ==
    c \in d.present /\ HasDateInName(c) /\ ~StartsWithUnderscore(c)

\* [col for col in df.columns if 'date' in col.lower() and not col.startswith('_')]
DateColumns(d) == SelectSeq(ColumnOrder, LAMBDA c : IsDateColumn(d, c))

\* Mutant: a date column that fails to parse is a failed sub-check.
RECURSIVE DateLoopCountUnparsed(_, _, _, _)
DateLoopCountUnparsed(d, cols, t, acc) ==
    IF cols = <<>> THEN acc
    ELSE IF ColumnDateRaises(d, Head(cols))
      THEN DateLoopCountUnparsed(d, Tail(cols), t,
                                 Append(acc, [check |-> Head(cols), passed |-> FALSE]))
    ELSE DateLoopCountUnparsed(d, Tail(cols), t,
                               Append(acc, BusinessDateCheck(d, Head(cols), t)))

\* for date_col in date_columns: try ... except: continue
RECURSIVE DateLoop(_, _, _, _)
DateLoop(d, cols, t, acc) ==
    IF cols = <<>> THEN acc
    ELSE IF ColumnDateRaises(d, Head(cols)) THEN DateLoop(d, Tail(cols), t, acc)
    ELSE DateLoop(d, Tail(cols), t, Append(acc, BusinessDateCheck(d, Head(cols), t)))

ValidateFreshness(d, t) ==
    LET hasIngest == HasColumn(d, "_ingestion_timestamp")
        raises == hasIngest /\ ColumnDateRaises(d, "_ingestion_timestamp")
        first == IF hasIngest /\ ~raises THEN <<IngestionCheck(d, t)>> ELSE <<>>
        cks == DateLoop(d, DateColumns(d), t, first)
        passedChecks == Cardinality({ k \in 1..Len(cks) : cks[k].passed })
        score == IF cks = <<>> THEN One ELSE Frac(passedChecks, Len(cks))
        passed == IF cks = <<>> THEN TRUE ELSE FGe(score, FreshnessThreshold)
    IN [raised |-> raises,
        res |-> [present |-> TRUE, passed |-> passed, score |-> score,
                 error |-> FALSE, freshness_checks |-> cks]]

---------------------------------------------------------------------------
(* Aggregation and quarantine: validate_data lines 59-76 and               *)
(* _quarantine_bad_data.                                                   *)

CheckNames ==
    <<"schema_validation", "business_rules", "completeness", "consistency",
      "freshness">>

\* result.get("score", 0) of an entry of checks
ScoreOf(cs, name) == cs[name].score

\* Mutant: the sum of the scores, not divided by their number.
OverallScoreNoDivision(cs) ==
    FSum([k \in 1..Len(CheckNames) |-> ScoreOf(cs, CheckNames[k])])

\* sum(check_scores) / len(check_scores)
OverallScore(cs) ==
    LET scores == [k \in 1..Len(CheckNames) |-> ScoreOf(cs, CheckNames[k])] IN
    FDivInt(FSum(scores), Len(scores))

\* self.quality_config.get("coverage_threshold", 0.95)
CoverageThreshold(cfg) ==
    IF cfg.has_threshold THEN cfg.threshold ELSE DefaultThreshold

\* Mutant: the decision at 0.9 whatever the configuration says.
PassedAtNinety(overall, cfg) == FGe(overall, Frac(9, 10))

\* validation_results["overall_score"] >= threshold
Passed(overall, cfg) == FGe(overall, CoverageThreshold(cfg))

\* Mutant: only the first row is quarantined when the schema check failed.
QuarantineMaskFirstRow(d, cs) ==
    IF ~cs["schema_validation"].passed /\ d.n > 0 THEN {1} ELSE {}

\* Mutant: every row is quarantined whichever check failed.
QuarantineMaskAnyFailure(d, cs) == 1..d.n

\* The rows selected by quarantine_mask: all of them when the schema check
\* failed, none otherwise.
QuarantineMask(d, cs) ==
    IF ~cs["schema_validation"].passed THEN 1..d.n ELSE {}

\* datetime.utcnow().strftime('%Y%m%d_%H%M%S'): the clock reading to the
\* second; the part below one second is dropped.
Strftime(t, m) == t

\* The frame df after quarantined_df = df[quarantine_mask] (line 342): the
\* selection builds a new frame and df keeps its rows, columns and values.
\* (The mask holds every row or none.)
FrameWithoutQuarantined(d, rows) ==
    IF rows = {} THEN d
    ELSE [d EXCEPT !.n = 0, !.data = [c \in Columns |-> <<>>]]

FrameAfterQuarantine(d, rows) == d

\* The parquet file and its metadata file, named by source_name and the
\* timestamp string ts; rows are the quarantined rows they hold.
QuarantineFiles(d, rows, ts) ==
    << [file |-> "parquet", timestamp |-> ts, rows |-> rows],
       [file |-> "metadata", timestamp |-> ts, rows |-> rows] >>

\* The path of a quarantine file.
FileName(f) == [file |-> f.file, timestamp |-> f.timestamp]

---------------------------------------------------------------------------
(* The report: generate_quality_report, and its JSON document as the       *)
(* component writes JSON (json.dump(..., default=str), line 362).          *)

\* A rule score is a numpy.float64 when it is numpy_int64 / int.
RuleScoreIsNumpy(d, rule) ==
    /\ ~RuleLookupRaises(rule)
    /\ HasColumn(d, rule.column)
    /\ rule.check \in {"not_null", "greater_than", "date_range"}
    /\ RuleResult(d, rule).scored
    /\ Len_df(d) > 0

\* total_score = 0.0 + score + ... is a numpy.float64 once one score is.
BusinessScoreIsNumpy(d, rules) ==
    \E k \in 1..Len(rules) : RuleScoreIsNumpy(d, rules[k])

\* total_completeness is a numpy.float64 once one column ratio is.
CompletenessScoreIsNumpy(d) == BusinessColumns(d) # {} /\ Len_df(d) > 0

\* sum(check_scores) / len(check_scores) is a numpy.float64 when one of the
\* five scores is; the schema, consistency and freshness scores are floats.
OverallScoreIsNumpy(d, rules) ==
    BusinessScoreIsNumpy(d, rules) \/ CompletenessScoreIsNumpy(d)

\* Python values of the report: a type name and the value.
PyBool(b, numpy) ==
    [type |-> IF numpy THEN "numpy.bool_" ELSE "bool",
     repr |-> IF b THEN "True" ELSE "False"]
PyFloat(x, numpy) ==
    [type |-> IF numpy THEN "numpy.float64" ELSE "float", repr |-> x]

\* a == b in Python, for the values above.
PyEquals(a, b) ==
    LET kind(x) == IF x.type \in {"bool", "numpy.bool_"} THEN "bool"
                   ELSE IF x.type \in {"float", "numpy.float64"} THEN "float"
                   ELSE "str"
    IN kind(a) = kind(b) /\ a.repr = b.repr

\* The order in which _generate_recommendations looks at the categories.
RecommendationOrder ==
    <<"schema_validation", "completeness", "consistency", "freshness",
      "business_rules">>

\* The condition under which the message of a category is appended: the
\* completeness score below 0.9, passed false for the others.
Recommends(cs, name) ==
    IF name = "completeness"
      THEN FLt(cs[name].score, CompletenessThreshold)
      ELSE ~cs[name].passed

\* Mutant: no message for a failing freshness check.
GenerateRecommendationsButFreshness(cs) ==
    SelectSeq(RecommendationOrder,
              LAMBDA name : name # "freshness" /\ Recommends(cs, name))

\* _generate_recommendations: the list of messages, each named here by its
\* category.
GenerateRecommendations(cs) ==
    SelectSeq(RecommendationOrder, LAMBDA name : Recommends(cs, name))

\* generate_quality_report(validation_results)
GenerateQualityReport(res, cs, d, rules) ==
    LET numpy == OverallScoreIsNumpy(d, rules) IN
    [present |-> TRUE,
     overall_assessment |->
        [passed |-> PyBool(res.passed, numpy),
         score |-> PyFloat(res.overall_score, numpy)],
     detailed_results |-> { name \in DOMAIN cs : cs[name].present },
     recommendations |-> GenerateRecommendations(cs)]

\* json.dumps(x, default=str) of one value: bool is a JSON literal, float and
\* its subclass numpy.float64 a JSON number, anything else goes through
\* str() and is a JSON string.
JsonEncode(x) ==
    IF x.type = "bool" THEN [token |-> "literal", text |-> x.repr]
    ELSE IF x.type \in {"float", "numpy.float64"}
      THEN [token |-> "number", text |-> x.repr]
    ELSE [token |-> "string", text |-> x.repr]

\* json.loads of one value.
JsonDecode(j) ==
    [type |-> IF j.token = "literal" THEN "bool"
              ELSE IF j.token = "number" THEN "float" ELSE "str",
     repr |-> j.text]

\* The report as a JSON document, and the document parsed back.
JsonDumps(r) ==
    [overall_assessment |->
        [passed |-> JsonEncode(r.overall_assessment.passed),
         score |-> JsonEncode(r.overall_assessment.score)],
     detailed_results |-> r.detailed_results]

JsonLoads(doc) ==
    [overall_assessment |->
        [passed |-> JsonDecode(doc.overall_assessment.passed),
         score |-> JsonDecode(doc.overall_assessment.score)],
     detailed_results |-> doc.detailed_results]

---------------------------------------------------------------------------
(* Ingestion and orchestration: DataIngester (src/src/ingestion/ingest.py) *)
(* and PipelineOrchestrator (src/src/orchestrator/pipeline.py).            *)

\* @retry(stop=stop_after_attempt(3), ...) on ingest_csv and ingest_json.
StopAfterAttempt == 3

\* The row counts of the files that are read.
IngestedRows == {0, 3}

\* Entries of config.get_data_sources(); keys is the set of keys the entry
\* holds.
SourceKeys == {"name", "type", "path"}

MkSource(name, type, keys) == [name |-> name, type |-> type, keys |-> keys]

CsvTransactions == MkSource("test_transactions", "csv", SourceKeys)
JsonAccounts == MkSource("test_accounts", "json", SourceKeys)
S3Accounts == MkSource("accounts", "s3", SourceKeys)
XmlLegacy == MkSource("legacy", "xml", SourceKeys)
NoPath == MkSource("remote", "s3", {"name", "type"})

SourceCatalog == {CsvTransactions, JsonAccounts, S3Accounts, XmlLegacy, NoPath}

SourceLists == SeqsUpTo(SourceCatalog, MaxSources)

\* source_config['name'], ['type'], ['path'] all succeed.
WellFormed(src) == SourceKeys \subseteq src.keys

\* What the file of a direct ingest_* call is.
FileConditions == {"ok", "missing", "invalid_json"}

\* One attempt of ingest_csv / ingest_json: the exception it raises, or the
\* rows it returns.  A missing file and an invalid JSON document fail every
\* attempt; otherwise the attempt succeeds or a collaborator (the schema
\* manager) raises.
Failed(err) == [ok |-> FALSE, rows |-> 0, error |-> err]
Succeeded(rows) == [ok |-> TRUE, rows |-> rows, error |-> ""]

AttemptOutcomes(fn, file) ==
    IF file = "missing" THEN {Failed("FileNotFoundError")}
    ELSE IF fn = "json" /\ file = "invalid_json" THEN {Failed("JSONDecodeError")}
    ELSE {Failed("Exception")} \cup { Succeeded(r) : r \in IngestedRows }

\* tenacity after an attempt: return its value, retry, or, after the last
\* attempt allowed, raise RetryError (reraise is not set).
NoCallResult == [state |-> "none", rows |-> 0, error |-> ""]

AfterAttemptStopAtTwo(log) ==
    LET last == log[Len(log)] IN
    IF last.ok THEN [state |-> "returned", rows |-> last.rows, error |-> ""]
    ELSE IF Len(log) >= StopAfterAttempt - 1
      THEN [state |-> "raised", rows |-> 0, error |-> "RetryError"]
    ELSE NoCallResult

AfterAttempt(log) ==
    LET last == log[Len(log)] IN
    IF last.ok THEN [state |-> "returned", rows |-> last.rows, error |-> ""]
    ELSE IF Len(log) >= StopAfterAttempt
      THEN [state |-> "raised", rows |-> 0, error |-> "RetryError"]
    ELSE NoCallResult

\* bronze_file.stem is "<source_name>_<timestamp>"; stem.split('_')[0] is
\* the part of the source name before its first underscore.  A Bronze file
\* is identified here by the name of its source.
FirstToken(name) ==
    IF name \in {"test_transactions", "test_accounts"} THEN "test" ELSE name

\* bronze_file.stem of the Bronze file of a source, written by
\* save_to_bronze as f"{source_name}_{timestamp}.parquet".
Stem(name) == name \o "_20240101_120000"

\* The entry appended to sources_processed for one source, given what the
\* ingest call and save_to_bronze do.
SuccessEntry(src, rows) ==
    [source_name |-> src.name, source_type |-> src.type, status |-> "success",
     rows_ingested |-> rows, output_file |-> src.name, error |-> ""]
FailedEntry(src, err) ==
    [source_name |-> src.name, source_type |-> src.type, status |-> "failed",
     rows_ingested |-> 0, output_file |-> "", error |-> err]

\* The body of the loop of run_ingestion_pipeline for a well-formed source.
SourceEntries(src) ==
    IF src.type \in {"csv", "json"}
      THEN { SuccessEntry(src, r) : r \in IngestedRows }
           \cup { FailedEntry(src, "RetryError"), FailedEntry(src, "save_to_bronze") }
    ELSE IF src.type = "s3"
      THEN { SuccessEntry(src, 0), FailedEntry(src, "save_to_bronze") }
    ELSE { FailedEntry(src, "ValueError") }

NewIngestion ==
    [sources_processed |-> <<>>, total_rows_ingested |-> 0, status |-> "running",
     error |-> ""]

NewPipeline == [status |-> "running", error |-> ""]

\* What the transformation stage and one quality assessment end with.
TransformationOutcomes == {"completed", "failed", "raises"}
AssessmentOutcomes == {"passed", "failed", "raises"}

\* The Bronze files of the successful sources, in order.
BronzeFiles(res) ==
    LET ok == SelectSeq(res.sources_processed, LAMBDA e : e.status = "success")
    IN [k \in 1..Len(ok) |-> ok[k].output_file]

\* quality_results[key] = value
Store(q, key, value) ==
    [k \in DOMAIN q \cup {key} |-> IF k = key THEN value ELSE q[k]]

\* any(not result["passed"] for result in quality_results.values())
AnyNotPassed(q) == \E k \in DOMAIN q : ~q[k].passed

pipeVars ==
    <<mode, ppc, sources, idx, call, attempts, callResult, ingestion,
      transformation, quality, assessed, pipeline>>

NoCall == [fn |-> "", file |-> ""]

\* Nothing is running in the ingester and the orchestrator.
PipelineIdle ==
    /\ mode = "idle"
    /\ ppc = "idle"
    /\ sources = <<>>
    /\ idx = 0
    /\ call = NoCall
    /\ attempts = <<>>
    /\ callResult = NoCallResult
    /\ ingestion = NewIngestion
    /\ transformation = ""
    /\ quality = <<>>
    /\ assessed = <<>>
    /\ pipeline = NewPipeline

---------------------------------------------------------------------------
(* The state machine.                                                      *)

NoCheckResult == [present |-> FALSE, passed |-> FALSE, score |-> Zero, error |-> FALSE]

NoChecks == [name \in { CheckNames[k] : k \in 1..Len(CheckNames) } |-> NoCheckResult]

\* validation_results as built at lines 29-37.
NewResult(d) ==
    [total_rows |-> Len_df(d), overall_score |-> Zero, passed |-> FALSE,
     quarantined_rows |-> 0, returned |-> FALSE]

EmptyDf == MkDf(0, {}, <<>>, <<>>, Str)

\* No earlier call of a pair, and no report.
NoFirst == [present |-> FALSE, checks |-> NoChecks, written |-> <<>>, now |-> 0]
NoReport ==
    [present |-> FALSE,
     overall_assessment |-> [passed |-> PyBool(FALSE, FALSE),
                             score |-> PyFloat(Zero, FALSE)],
     detailed_results |-> {}, recommendations |-> <<>>]

\* The configurations: every threshold with the base rule lists, and the
\* longer rule lists with the default threshold.
MkConfig(rules, has, thr) ==
    [rules |-> rules, has_threshold |-> has, threshold |-> thr]

Configs ==
    { MkConfig(r, FALSE, Zero) : r \in RuleLists \cup BaseRuleLists }
    \cup { MkConfig(r, TRUE, t) : r \in { <<>>, <<AmountNotNull>> }, t \in Thresholds }

\* The datasets validated under a configuration.
DatasetsFor(cfg) ==
    IF cfg.rules = <<AmountNotNull>> THEN Datasets \cup BoundaryDatasets
    ELSE IF cfg.rules = <<DateInRange>> THEN SimpleDatasets \cup RangeDatasets
    ELSE IF cfg.rules = <<>> /\ cfg.has_threshold
      THEN Datasets \cup DuplicateBoundaryDatasets
    ELSE IF cfg.rules = <<>> THEN RepeatDatasets
    ELSE IF cfg.rules \in BaseRuleLists THEN Datasets
    ELSE SimpleDatasets

OutcomesFor(cfg) ==
    IF cfg.rules \in BaseRuleLists THEN SchemaOutcomes ELSE {"valid"}

\* The configurations under which a dataset is validated a second time.
RepeatedFor(cfg) == cfg.rules = <<>> /\ ~cfg.has_threshold

\* DataQualityValidator.__init__
Init ==
    /\ config \in Configs
    /\ pc = "idle"
    /\ df = EmptyDf
    /\ schemaOutcome = "valid"
    /\ now = NowStart
    /\ micro = 0
    /\ checks = NoChecks
    /\ result = NewResult(EmptyDf)
    /\ raisedBy = "none"
    /\ written = <<>>
    /\ firstCall = NoFirst
    /\ report = NoReport
    /\ PipelineIdle

\* validate_data is called: lines 25-37.
Call ==
    /\ pc = "idle"
    /\ \E d \in DatasetsFor(config), o \in OutcomesFor(config) :
        /\ df' = d
        /\ schemaOutcome' = o
        /\ result' = NewResult(d)
    /\ checks' = NoChecks
    /\ raisedBy' = "none"
    /\ written' = <<>>
    /\ firstCall' = NoFirst
    /\ report' = NoReport
    /\ pc' = "schema"
    /\ UNCHANGED <<config, now, micro>>
    /\ UNCHANGED pipeVars

\* Lines 39-41.
CheckSchema ==
    /\ pc = "schema"
    /\ checks' = [checks EXCEPT !["schema_validation"] = ValidateSchema(schemaOutcome)]
    /\ pc' = "business"
    /\ UNCHANGED <<config, df, schemaOutcome, now, micro, result, raisedBy,
                   written, firstCall, report>>
    /\ UNCHANGED pipeVars

\* Lines 43-45.
CheckBusinessRules ==
    /\ pc = "business"
    /\ LET r == ValidateBusinessRules(df, config.rules) IN
       IF r.raised
         THEN /\ pc' = "raised"
              /\ raisedBy' = "business_rules"
              /\ UNCHANGED checks
         ELSE /\ pc' = "completeness"
              /\ checks' = [checks EXCEPT !["business_rules"] = r.res]
              /\ UNCHANGED raisedBy
    /\ UNCHANGED <<config, df, schemaOutcome, now, micro, result, written,
                   firstCall, report>>
    /\ UNCHANGED pipeVars

\* Lines 47-49.
CheckCompleteness ==
    /\ pc = "completeness"
    /\ checks' = [checks EXCEPT !["completeness"] = ValidateCompleteness(df)]
    /\ pc' = "consistency"
    /\ UNCHANGED <<config, df, schemaOutcome, now, micro, result, raisedBy,
                   written, firstCall, report>>
    /\ UNCHANGED pipeVars

\* Lines 51-53.
CheckConsistency ==
    /\ pc = "consistency"
    /\ \E e \in (IF BusinessColumns(df) = {} /\ ~IsEmpty(df)
                   THEN EmptySubsetOutcomes ELSE {"none"}) :
        LET r == ValidateConsistency(df, e) IN
        IF r.raised
          THEN /\ pc' = "raised"
               /\ raisedBy' = "consistency"
               /\ UNCHANGED checks
          ELSE /\ pc' = "freshness"
               /\ checks' = [checks EXCEPT !["consistency"] = r.res]
               /\ UNCHANGED raisedBy
    /\ UNCHANGED <<config, df, schemaOutcome, now, micro, result, written,
                   firstCall, report>>
    /\ UNCHANGED pipeVars

\* Lines 55-57.
CheckFreshness ==
    /\ pc = "freshness"
    /\ LET r == ValidateFreshness(df, now) IN
       IF r.raised
         THEN /\ pc' = "raised"
              /\ raisedBy' = "freshness"
              /\ UNCHANGED checks
         ELSE /\ pc' = "aggregate"
              /\ checks' = [checks EXCEPT !["freshness"] = r.res]
              /\ UNCHANGED raisedBy
    /\ UNCHANGED <<config, df, schemaOutcome, now, micro, result, written,
                   firstCall, report>>
    /\ UNCHANGED pipeVars

\* Lines 59-84: the overall score, the decision, the quarantine step and the
\* return.  The quarantine writer is an external store whose write may fail.
Aggregate ==
    /\ pc = "aggregate"
    /\ LET overall == OverallScore(checks)
           ok == Passed(overall, config)
           rows == QuarantineMask(df, checks)
       IN
       \/ /\ ok
          /\ result' = [result EXCEPT !.overall_score = overall, !.passed = TRUE,
                                      !.returned = TRUE]
          /\ pc' = "done"
          /\ UNCHANGED <<df, raisedBy, written>>
       \/ /\ ~ok
          /\ rows = {}
          /\ result' = [result EXCEPT !.overall_score = overall,
                                      !.quarantined_rows = 0, !.returned = TRUE]
          /\ df' = FrameAfterQuarantine(df, rows)
          /\ pc' = "done"
          /\ UNCHANGED <<raisedBy, written>>
       \/ /\ ~ok
          /\ rows # {}
          /\ written' = QuarantineFiles(df, rows, Strftime(now, micro))
          /\ result' = [result EXCEPT !.overall_score = overall,
                                      !.quarantined_rows = Cardinality(rows),
                                      !.returned = TRUE]
          /\ df' = FrameAfterQuarantine(df, rows)
          /\ pc' = "done"
          /\ UNCHANGED raisedBy
       \/ /\ ~ok
          /\ rows # {}
          /\ result' = [result EXCEPT !.overall_score = overall]
          /\ pc' = "raised"
          /\ raisedBy' = "quarantine_write"
          /\ df' = FrameAfterQuarantine(df, rows)
          /\ UNCHANGED written
    /\ UNCHANGED <<config, schemaOutcome, now, micro, checks, firstCall, report>>
    /\ UNCHANGED pipeVars

\* The caller builds the report of the result: generate_quality_report.
GenerateReport ==
    /\ pc = "done"
    /\ report' = GenerateQualityReport(result, checks, df, config.rules)
    /\ pc' = "reported"
    /\ UNCHANGED <<config, df, schemaOutcome, now, micro, checks, result,
                   raisedBy, written, firstCall>>
    /\ UNCHANGED pipeVars

\* The number of times the clock advanced.
Ticks == (now - NowStart) \div HoursPerDay + micro

\* Time passes between the two calls of a pair: less than a second.
TickMicro ==
    /\ pc = "schema" /\ firstCall.present
    /\ Ticks < MaxTicks
    /\ micro' = micro + 1
    /\ UNCHANGED <<config, pc, df, schemaOutcome, now, checks, result, raisedBy,
                   written, firstCall, report>>
    /\ UNCHANGED pipeVars

\* Time passes between the two calls of a pair: a day.
TickDay ==
    /\ pc = "schema" /\ firstCall.present
    /\ Ticks < MaxTicks
    /\ now' = now + HoursPerDay
    /\ micro' = 0
    /\ UNCHANGED <<config, pc, df, schemaOutcome, checks, result, raisedBy,
                   written, firstCall, report>>
    /\ UNCHANGED pipeVars

\* validate_data is called again with the same dataset and source_name, the
\* configuration and the stored schema being what they were.
CallAgain ==
    /\ pc = "done" /\ ~firstCall.present /\ RepeatedFor(config)
    /\ firstCall' = [present |-> TRUE, checks |-> checks, written |-> written,
                     now |-> now]
    /\ result' = NewResult(df)
    /\ checks' = NoChecks
    /\ raisedBy' = "none"
    /\ written' = <<>>
    /\ pc' = "schema"
    /\ UNCHANGED <<config, df, schemaOutcome, now, micro, report>>
    /\ UNCHANGED pipeVars

\* The caller takes the result (or the exception); the validator is idle again.
Return ==
    /\ pc \in {"done", "raised", "reported"}
    /\ pc' = "idle"
    /\ df' = EmptyDf
    /\ schemaOutcome' = "valid"
    /\ checks' = NoChecks
    /\ result' = NewResult(EmptyDf)
    /\ raisedBy' = "none"
    /\ written' = <<>>
    /\ firstCall' = NoFirst
    /\ report' = NoReport
    /\ UNCHANGED <<config, now, micro>>
    /\ UNCHANGED pipeVars

Next ==
    \/ Call
    \/ CheckSchema
    \/ CheckBusinessRules
    \/ CheckCompleteness
    \/ CheckConsistency
    \/ CheckFreshness
    \/ Aggregate
    \/ GenerateReport
    \/ TickMicro
    \/ TickDay
    \/ CallAgain
    \/ Return

allVars == <<vars, pipeVars>>

Spec == Init /\ [][Next]_allVars

---------------------------------------------------------------------------
(* The ingester and the orchestrator as a state machine.                   *)

\* A caller calls ingest_csv or ingest_json on a file.
CallIngest ==
    /\ ppc = "idle"
    /\ \E fn \in {"csv", "json"}, file \in FileConditions :
        call' = [fn |-> fn, file |-> file]
    /\ mode' = "direct"
    /\ ppc' = "attempt"
    /\ attempts' = <<>>
    /\ callResult' = NoCallResult
    /\ UNCHANGED <<sources, idx, ingestion, transformation, quality, assessed,
                   pipeline>>
    /\ UNCHANGED vars

\* One attempt of the decorated function, and what tenacity does after it.
Attempt ==
    /\ ppc = "attempt"
    /\ Len(attempts) < StopAfterAttempt
    /\ \E out \in AttemptOutcomes(call.fn, call.file) :
        LET log == Append(attempts, out) IN
        /\ attempts' = log
        /\ callResult' = AfterAttempt(log)
        /\ ppc' = IF AfterAttempt(log).state = "none" THEN "attempt" ELSE "call_done"
    /\ UNCHANGED <<mode, sources, idx, call, ingestion, transformation, quality,
                   assessed, pipeline>>
    /\ UNCHANGED vars

\* run_ingestion_pipeline starts, called on its own (run_ingestion_only) or
\* as the first stage of run_full_pipeline: lines 220-235.
StartIngestion ==
    /\ ppc = "idle"
    /\ mode' \in {"ingestion", "full"}
    /\ sources' \in SourceLists
    /\ ingestion' = NewIngestion
    /\ pipeline' = NewPipeline
    /\ idx' = 1
    /\ ppc' = "sources"
    /\ UNCHANGED <<call, attempts, callResult, transformation, quality, assessed>>
    /\ UNCHANGED vars

\* One turn of the loop over the data sources: lines 237-271.  A source
\* entry without one of its keys raises KeyError outside the inner try and
\* ends the run with status 'failed'.
ProcessSource ==
    /\ ppc = "sources"
    /\ idx <= Len(sources)
    /\ LET src == sources[idx] IN
       IF ~WellFormed(src)
         THEN /\ ingestion' = [ingestion EXCEPT !.status = "failed",
                                                !.error = "KeyError"]
              /\ ppc' = "ingested"
              /\ UNCHANGED idx
         ELSE /\ \E e \in SourceEntries(src) :
                   ingestion' =
                     [ingestion EXCEPT
                        !.sources_processed = Append(@, e),
                        !.total_rows_ingested = @ + e.rows_ingested]
              /\ idx' = idx + 1
              /\ UNCHANGED ppc
    /\ UNCHANGED <<mode, sources, call, attempts, callResult, transformation,
                   quality, assessed, pipeline>>
    /\ UNCHANGED vars

\* The loop is over: lines 273-285.
FinishIngestion ==
    /\ ppc = "sources"
    /\ idx > Len(sources)
    /\ ingestion' = [ingestion EXCEPT !.status = "completed"]
    /\ ppc' = "ingested"
    /\ UNCHANGED <<mode, sources, idx, call, attempts, callResult,
                   transformation, quality, assessed, pipeline>>
    /\ UNCHANGED vars

\* run_full_pipeline after the ingestion stage, through the transformation
\* stage: lines 50-76.
Transform ==
    /\ ppc = "ingested"
    /\ mode = "full"
    /\ IF ingestion.status # "completed"
         THEN /\ pipeline' = [status |-> "failed", error |-> "Ingestion stage failed"]
              /\ ppc' = "finished"
              /\ UNCHANGED <<transformation, idx>>
       ELSE IF BronzeFiles(ingestion) = <<>>
         THEN /\ pipeline' = [status |-> "failed", error |-> "No Bronze files"]
              /\ ppc' = "finished"
              /\ UNCHANGED <<transformation, idx>>
       ELSE \E t \in TransformationOutcomes :
              IF t = "raises"
                THEN /\ pipeline' = [status |-> "failed", error |-> "transformation"]
                     /\ ppc' = "finished"
                     /\ UNCHANGED <<transformation, idx>>
                ELSE /\ transformation' = t
                     /\ idx' = 1
                     /\ ppc' = "quality"
                     /\ UNCHANGED pipeline
    /\ UNCHANGED <<mode, sources, call, attempts, callResult, ingestion, quality,
                   assessed>>
    /\ UNCHANGED vars

\* One turn of the loop of _run_quality_assessment: lines 143-156.
AssessFile ==
    /\ ppc = "quality"
    /\ idx <= Len(BronzeFiles(ingestion))
    /\ LET file == BronzeFiles(ingestion)[idx] IN
       \E out \in AssessmentOutcomes :
         /\ assessed' = Append(assessed, [file |-> file, outcome |-> out])
         /\ quality' =
              IF out = "raises"
                THEN Store(quality, Stem(file), [passed |-> FALSE, error |-> "exception"])
                ELSE Store(quality, FirstToken(file),
                           [passed |-> out = "passed", error |-> ""])
    /\ idx' = idx + 1
    /\ UNCHANGED <<mode, ppc, sources, call, attempts, callResult, ingestion,
                   transformation, pipeline>>
    /\ UNCHANGED vars

\* The final status: lines 84-113; recording the run may raise, which the
\* except block turns into status 'failed'.
FinishPipeline ==
    /\ ppc = "quality"
    /\ idx > Len(BronzeFiles(ingestion))
    /\ LET has_failures ==
             \/ ingestion.status = "failed"
             \/ transformation = "failed"
             \/ AnyNotPassed(quality)
       IN \/ pipeline' = [status |-> IF has_failures THEN "failed" ELSE "completed",
                          error |-> ""]
          \/ pipeline' = [status |-> "failed", error |-> "record_pipeline_run"]
    /\ ppc' = "finished"
    /\ UNCHANGED <<mode, sources, idx, call, attempts, callResult, ingestion,
                   transformation, quality, assessed>>
    /\ UNCHANGED vars

\* The caller takes the result of the call or of the run.
ReturnPipeline ==
    /\ \/ ppc \in {"call_done", "finished"}
       \/ ppc = "ingested" /\ mode = "ingestion"
    /\ mode' = "idle"
    /\ ppc' = "idle"
    /\ sources' = <<>>
    /\ idx' = 0
    /\ call' = NoCall
    /\ attempts' = <<>>
    /\ callResult' = NoCallResult
    /\ ingestion' = NewIngestion
    /\ transformation' = ""
    /\ quality' = <<>>
    /\ assessed' = <<>>
    /\ pipeline' = NewPipeline
    /\ UNCHANGED vars

\* The validator of the orchestrator, not called step by step here.
ValidatorIdle ==
    /\ config = MkConfig(<<>>, FALSE, Zero)
    /\ pc = "idle"
    /\ df = EmptyDf
    /\ schemaOutcome = "valid"
    /\ now = NowStart
    /\ micro = 0
    /\ checks = NoChecks
    /\ result = NewResult(EmptyDf)
    /\ raisedBy = "none"
    /\ written = <<>>
    /\ firstCall = NoFirst
    /\ report = NoReport

PipelineInit == ValidatorIdle /\ PipelineIdle

PipelineNext ==
    \/ CallIngest
    \/ Attempt
    \/ StartIngestion
    \/ ProcessSource
    \/ FinishIngestion
    \/ Transform
    \/ AssessFile
    \/ FinishPipeline
    \/ ReturnPipeline

PipelineSpec == PipelineInit /\ [][PipelineNext]_allVars

---------------------------------------------------------------------------
(* Properties.                                                             *)

CheckNameSet == { CheckNames[k] : k \in 1..Len(CheckNames) }

\* Integer product and weighted sum of the five scores' fractions.
RECURSIVE DenProduct(_)
DenProduct(s) == IF s = <<>> THEN 1 ELSE Head(s).den * DenProduct(Tail(s))

RECURSIVE NumSum(_, _)
NumSum(s, D) ==
    IF s = <<>> THEN 0 ELSE Head(s).num * (D \div Head(s).den) + NumSum(Tail(s), D)

FiveScores == [k \in 1..Len(CheckNames) |-> checks[CheckNames[k]].score]

\* C1: the overall_score a call returns is the arithmetic mean of the five
\* check scores (equal weights) and lies in [0, 1].
C1_OverallScoreIsMean ==
    pc = "done" =>
        LET D == DenProduct(FiveScores)
            o == result.overall_score
        IN /\ \A name \in CheckNameSet : checks[name].present
           /\ o.num * 5 * D = NumSum(FiveScores, D) * o.den
           /\ 0 <= o.num /\ o.num <= o.den /\ o.den > 0

\* A returned result whose score is strictly between 0 and 1 and whose check
\* scores differ.
C1_Witness ==
    /\ pc = "done"
    /\ result.overall_score \notin {Zero, One}
    /\ checks["business_rules"].score # checks["completeness"].score
    /\ checks["freshness"].score # checks["consistency"].score

\* C2: every call ends in exactly one of PASSED or FAILED (no exception of the
\* engine's own logic ends it), and passed holds iff overall_score >=
\* coverage_threshold, 0.95 when none is configured.
C2_EveryCallEndsPassedOrFailed ==
    /\ pc = "raised" => raisedBy = "quarantine_write"
    /\ pc = "done" =>
         LET o == result.overall_score
             t == IF config.has_threshold THEN config.threshold ELSE Frac(95, 100)
         IN result.passed <=> (o.num * t.den >= t.num * o.den)

\* C3: no exception escapes from a checker.  Stated for the freshness
\* checker and the case the claim names: once the freshness checker has run
\* on a frame whose _ingestion_timestamp does not parse, the call has not
\* raised and the freshness result is a failed result with score 0.0 and an
\* error.
C3_FreshnessErrorIsDowngraded ==
    (/\ pc \in {"aggregate", "done", "raised"}
     /\ raisedBy \notin {"business_rules", "consistency", "quarantine_write"}
     /\ HasColumn(df, "_ingestion_timestamp")
     /\ ColumnDateRaises(df, "_ingestion_timestamp"))
    => /\ raisedBy # "freshness"
       /\ checks["freshness"].present
       /\ ~checks["freshness"].passed
       /\ checks["freshness"].score = Zero
       /\ checks["freshness"].error

\* C4: a call that ends FAILED quarantines the whole dataset when the schema
\* check failed, and nothing when the schema check passed.
C4_QuarantineOnlyOnSchemaFailure ==
    (pc = "done" /\ ~result.passed) =>
        IF ~checks["schema_validation"].passed
          THEN /\ result.quarantined_rows = result.total_rows
               /\ result.total_rows > 0 =>
                    /\ Len(written) = 2
                    /\ \A k \in 1..Len(written) : written[k].rows = 1..df.n
          ELSE /\ result.quarantined_rows = 0
               /\ written = <<>>

\* A FAILED call whose schema check failed and whose rows were all written.
C4_Witness ==
    /\ pc = "done" /\ ~result.passed
    /\ ~checks["schema_validation"].passed
    /\ result.total_rows > 0
    /\ result.quarantined_rows = result.total_rows
    /\ written # <<>>

\* A FAILED call whose schema check passed: nothing is quarantined.
C4_WitnessSchemaPassed ==
    /\ pc = "done" /\ ~result.passed
    /\ checks["schema_validation"].passed
    /\ result.total_rows > 0
    /\ result.quarantined_rows = 0

\* C5: every CheckResult produced has 0 <= score <= 1.
C5_ScoresInUnitInterval ==
    \A name \in CheckNameSet :
        checks[name].present =>
            /\ checks[name].score.den > 0
            /\ 0 <= checks[name].score.num
            /\ checks[name].score.num <= checks[name].score.den

\* All five results produced for a frame with business columns and no rows.
C5_Witness ==
    /\ \A name \in CheckNameSet : checks[name].present
    /\ df.n = 0
    /\ BusinessColumns(df) # {}
    /\ config.rules # <<>>
    /\ checks["completeness"].score = Zero

\* All five results produced for a frame without business columns.
C5_WitnessNoBusinessColumns ==
    /\ \A name \in CheckNameSet : checks[name].present
    /\ df.n > 0
    /\ BusinessColumns(df) = {}
    /\ checks["completeness"].score = One

\* The frame without its metadata columns.
DropMetadata(d) ==
    [n |-> d.n, present |-> BusinessColumns(d),
     data |-> [c \in Columns |-> IF StartsWithUnderscore(c) THEN <<>> ELSE d.data[c]]]

\* The passed flag and the score of a CheckResult.
Verdict(r) == [passed |-> r.passed, score |-> r.score]

\* C6: the business-rule, completeness and consistency results do not depend
\* on the metadata columns: passed and score are those of the frame without
\* its metadata columns.
C6_MetadataColumnsNeverRead ==
    /\ checks["business_rules"].present =>
         Verdict(checks["business_rules"])
           = Verdict(ValidateBusinessRules(DropMetadata(df), config.rules).res)
    /\ checks["completeness"].present =>
         Verdict(checks["completeness"]) = Verdict(ValidateCompleteness(DropMetadata(df)))
    /\ checks["consistency"].present =>
         Verdict(checks["consistency"])
           = Verdict(ValidateConsistency(DropMetadata(df), "none").res)

\* The sum of the per-rule scores, an errored rule counting 0, as a fraction
\* over the common denominator D.
RECURSIVE RuleNumSum(_, _)
RuleNumSum(rr, D) ==
    IF rr = <<>> THEN 0
    ELSE (IF Head(rr).scored THEN Head(rr).score.num * (D \div Head(rr).score.den) ELSE 0)
         + RuleNumSum(Tail(rr), D)

RECURSIVE RuleDenProduct(_)
RuleDenProduct(rr) ==
    IF rr = <<>> THEN 1 ELSE Head(rr).score.den * RuleDenProduct(Tail(rr))

\* C7: the business_rules score is the sum of the per-rule scores over the
\* number of configured rules (errors and missing columns count 0), passed
\* iff score >= 0.95, and an empty rule list scores exactly 1.0 and passes.
C7_BusinessScoreIsMeanOfRules ==
    checks["business_rules"].present =>
        LET b == checks["business_rules"]
            rr == b.rule_results
            D == RuleDenProduct(rr)
        IN /\ Len(rr) = Len(config.rules)
           /\ config.rules # <<>> =>
                b.score.num * D * Len(config.rules) = RuleNumSum(rr, D) * b.score.den
           /\ b.passed <=> (100 * b.score.num >= 95 * b.score.den)
           /\ config.rules = <<>> => (b.score = One /\ b.passed)

\* Two rules, one errored and one fully passing: the score is 1/2.
C7_Witness ==
    /\ checks["business_rules"].present
    /\ Len(config.rules) = 2
    /\ \E i, j \in 1..2 :
        /\ ~checks["business_rules"].rule_results[i].scored
        /\ checks["business_rules"].rule_results[j].scored
        /\ checks["business_rules"].rule_results[j].score = One
    /\ checks["business_rules"].score = Frac(1, 2)
    /\ ~checks["business_rules"].passed

\* C8: a rule's passed flag is true iff passed_rows / total_rows >= 0.95,
\* equality passing, whatever coverage_threshold is.
C8_RulePassedAtFixedThreshold ==
    checks["business_rules"].present =>
        \A i \in 1..Len(checks["business_rules"].rule_results) :
            LET r == checks["business_rules"].rule_results[i] IN
            (r.scored /\ r.total_rows > 0) =>
                (r.passed <=> (100 * r.passed_rows >= 95 * r.total_rows))

\* 95 passing rows of 100 pass the rule, under a coverage_threshold of 0.8.
C8_Witness ==
    /\ checks["business_rules"].present
    /\ config.has_threshold /\ config.threshold = Frac(4, 5)
    /\ \E i \in 1..Len(checks["business_rules"].rule_results) :
        LET r == checks["business_rules"].rule_results[i] IN
        r.scored /\ r.passed_rows = 95 /\ r.total_rows = 100 /\ r.passed

\* 94 passing rows of 100 fail the rule.
C8_WitnessBelow ==
    /\ checks["business_rules"].present
    /\ \E i \in 1..Len(checks["business_rules"].rule_results) :
        LET r == checks["business_rules"].rule_results[i] IN
        r.scored /\ r.passed_rows = 94 /\ r.total_rows = 100 /\ ~r.passed

\* C9: a rule whose column is absent from the frame yields exactly one rule
\* result, failed and with an error message, without evaluating a row; it
\* does not make validate_data raise, and the later rules are still evaluated.
C9_MissingColumnIsFailedRule ==
    /\ checks["business_rules"].present =>
         LET rr == checks["business_rules"].rule_results IN
         /\ Len(rr) = Len(config.rules)
         /\ \A i \in 1..Len(config.rules) :
              LET rule == config.rules[i] IN
              /\ rr[i].rule = rule.name
              /\ ~HasColumn(df, rule.column) =>
                   /\ ~rr[i].passed /\ ~rr[i].scored
                   /\ rr[i].error = "Column not found"
                   /\ rr[i].passed_rows = 0 /\ rr[i].total_rows = 0
              /\ (HasColumn(df, rule.column) /\ rule.check = "not_null") =>
                   rr[i].scored /\ rr[i].total_rows = df.n
    /\ raisedBy = "business_rules" =>
         \E i \in 1..Len(config.rules) :
            ~({"name", "column", "check"} \subseteq config.rules[i].keys)

\* A rule on an absent column followed by a rule that is evaluated on rows.
C9_Witness ==
    /\ checks["business_rules"].present
    /\ Len(config.rules) = 2
    /\ ~HasColumn(df, config.rules[1].column)
    /\ ~checks["business_rules"].rule_results[1].passed
    /\ checks["business_rules"].rule_results[2].scored
    /\ checks["business_rules"].rule_results[2].passed_rows > 0

\* C10: a malformed rule definition never makes validate_data raise.
C10_MalformedRuleNeverRaises == raisedBy # "business_rules"
\* The rows of column c that hold a number greater than value.
NumericGreaterRows(d, c, value) ==
    { i \in 1..d.n : d.data[c][i].kind = "num" /\ d.data[c][i].v > value }

\* C11: a greater_than rule on a column with non-numeric values is scored
\* with the fraction of rows that are numeric and greater than rule.value; it
\* is no error result.
C11_NonNumericRowsOnlyFail ==
    checks["business_rules"].present =>
        \A k \in 1..Len(config.rules) :
            LET rule == config.rules[k]
                r == checks["business_rules"].rule_results[k]
            IN (/\ rule.check = "greater_than"
                /\ "value" \in rule.keys
                /\ HasColumn(df, rule.column)
                /\ df.n > 0)
               => /\ r.scored
                  /\ r.score = Frac(Cardinality(NumericGreaterRows(df, rule.column,
                                                                   rule.value)), df.n)
\* The rows of column c whose value is a date within [lo, hi].
DatedRowsWithin(d, c, lo, hi) ==
    { i \in 1..d.n : d.data[c][i].kind = "date"
                     /\ lo <= d.data[c][i].v /\ d.data[c][i].v <= hi }

\* C12: a date_range rule is scored with the fraction of rows whose value is
\* a date within [min_date, max_date], both bounds included; null and
\* unparseable rows are failing rows.
C12_DateRangeInclusive ==
    checks["business_rules"].present =>
        \A k \in 1..Len(config.rules) :
            LET rule == config.rules[k]
                r == checks["business_rules"].rule_results[k]
            IN (/\ rule.check = "date_range"
                /\ {"min_date", "max_date"} \subseteq rule.keys
                /\ rule.min_date.kind = "date" /\ rule.max_date.kind = "date"
                /\ HasColumn(df, rule.column)
                /\ df.n > 0)
               => /\ r.scored
                  /\ r.total_rows = df.n
                  /\ r.passed_rows =
                       Cardinality(DatedRowsWithin(df, rule.column,
                                                   rule.min_date.v, rule.max_date.v))
                  /\ r.score = Frac(r.passed_rows, df.n)

\* A date_range rule was scored 1/2 on two rows: one at max_date, the other
\* null or no date.
C12_Witness ==
    /\ checks["business_rules"].present
    /\ config.rules = <<DateInRange>>
    /\ df.n = 2 /\ HasColumn(df, "txn_date")
    /\ df.data["txn_date"][1] = DateAt(DateInRange.max_date.v)
    /\ df.data["txn_date"][2].kind \in {"str", "null"}
    /\ checks["business_rules"].rule_results[1].scored
    /\ checks["business_rules"].rule_results[1].score = Frac(1, 2)
\* The schema check reported an error detail: "Schema not found" in details,
\* or the error of the exception it caught.
SchemaErrorDetail(r) == r.error \/ r.details = "Schema not found"

\* C13: with no stored schema, or a schema lookup that raises, the schema
\* check fails with score 0 and an error detail, the call does not raise and
\* the other four checks are in the result; the schema score is always 0 or 1.
C13_MissingSchemaIsNotFatal ==
    /\ checks["schema_validation"].present =>
         checks["schema_validation"].score \in {Zero, One}
    /\ (pc \in {"done", "raised"} /\ schemaOutcome \in {"missing", "raises"}) =>
         /\ pc = "done"
         /\ ~checks["schema_validation"].passed
         /\ checks["schema_validation"].score = Zero
         /\ SchemaErrorDetail(checks["schema_validation"])
         /\ \A name \in CheckNameSet : checks[name].present
\* Every value of every business column of the frame is non-null.
AllBusinessValuesPresent(d) ==
    \A c \in BusinessColumns(d) : \A i \in 1..d.n : NotNa(d.data[c][i])

\* C14 as stated: whatever the number of rows, a dataset whose business
\* columns hold no null has completeness score 1.0 and passes.
C14_FullColumnsScoreOne ==
    (checks["completeness"].present /\ AllBusinessValuesPresent(df)) =>
        /\ checks["completeness"].score = One
        /\ checks["completeness"].passed

\* C14, amended: a dataset of at least one row whose business columns hold no
\* null has completeness score 1.0 and passes; a dataset of no rows with a
\* business column has completeness score 0.0 and fails.
C14_FullColumnsScoreOneIfRows ==
    checks["completeness"].present =>
        /\ (df.n > 0 /\ AllBusinessValuesPresent(df)) =>
              /\ checks["completeness"].score = One
              /\ checks["completeness"].passed
        /\ (df.n = 0 /\ BusinessColumns(df) # {}) =>
              /\ checks["completeness"].score = Zero
              /\ ~checks["completeness"].passed

\* Completeness was computed on two rows and two business columns with no
\* null in them.
C14_Witness ==
    /\ checks["completeness"].present
    /\ df.n = 2
    /\ BusinessColumns(df) = {"amount", "txn_date"}
    /\ AllBusinessValuesPresent(df)
    /\ checks["completeness"].score = One
\* The business-column values of row i.
BusinessRow(d, i) == [c \in BusinessColumns(d) |-> d.data[c][i]]

\* M: the rows that repeat another row on every business column, that is
\* the rows beyond the first of each group of equal rows.
RepeatedRows(d) == d.n - Cardinality({ BusinessRow(d, i) : i \in 1..d.n })

\* C15: on N rows of which M repeat another row on the business columns, the
\* duplicate_records sub-check reports the rate M/N and passes iff
\* M/N < 0.01, strictly.
C15_DuplicateRateStrictlyBelowLimit ==
    (checks["consistency"].present /\ df.n > 0 /\ BusinessColumns(df) # {}) =>
        LET dup == checks["consistency"].consistency_checks[1]
            M == RepeatedRows(df)
        IN /\ dup.check = "duplicate_records"
           /\ dup.duplicate_count = M
           /\ dup.duplicate_rate = Frac(M, df.n)
           /\ dup.passed <=> (100 * M < df.n)

\* One repeated row among 100: the rate is exactly 0.01 and the sub-check
\* fails.
C15_Witness ==
    /\ checks["consistency"].present
    /\ df.n = 100
    /\ checks["consistency"].consistency_checks[1].duplicate_count = 1
    /\ checks["consistency"].consistency_checks[1].duplicate_rate = Frac(1, 100)
    /\ ~checks["consistency"].consistency_checks[1].passed
\* The sub-checks of the consistency result that passed.
PassingSubChecks(r) ==
    { k \in 1..Len(r.consistency_checks) : r.consistency_checks[k].passed }

\* C16: the consistency score is the number of passing sub-checks among
\* duplicate_records and type_consistency divided by 2, hence 0, 0.5 or 1,
\* and the check passes iff both sub-checks pass.
C16_ConsistencyScoreIsHalves ==
    checks["consistency"].present =>
        LET r == checks["consistency"] IN
        /\ Len(r.consistency_checks) = 2
        /\ r.consistency_checks[1].check = "duplicate_records"
        /\ r.consistency_checks[2].check = "type_consistency"
        /\ r.score = Frac(Cardinality(PassingSubChecks(r)), 2)
        /\ r.score \in {Zero, Frac(1, 2), One}
        /\ r.passed <=> (PassingSubChecks(r) = {1, 2})

\* Exactly one of the two sub-checks passed: the score is 0.5 and the
\* consistency check failed.
C16_Witness ==
    /\ checks["consistency"].present
    /\ Cardinality(PassingSubChecks(checks["consistency"])) = 1
    /\ checks["consistency"].score = Frac(1, 2)
    /\ ~checks["consistency"].passed
\* The date-like business columns whose values all parse as dates.
ParsedDateColumns(d) ==
    { c \in BusinessColumns(d) :
        HasDateInName(c) /\ \A i \in 1..d.n : d.data[c][i].kind # "str" }

\* The number of freshness sub-checks counted for the frame.
CountedSubChecks(d) ==
    (IF HasColumn(d, "_ingestion_timestamp") THEN 1 ELSE 0)
      + Cardinality(ParsedDateColumns(d))

\* C17: with no ingestion timestamp and no date-like business column the
\* freshness result is score 1.0 and passed; otherwise the score is the
\* number of passing sub-checks over the number counted, and passed iff
\* score >= 0.80; a date-like column that does not parse is not counted.
C17_FreshnessScoreIsPassingFraction ==
    checks["freshness"].present =>
        LET r == checks["freshness"]
            passing == Cardinality({ k \in 1..Len(r.freshness_checks) :
                                       r.freshness_checks[k].passed })
        IN /\ Len(r.freshness_checks) = CountedSubChecks(df)
           /\ (~HasColumn(df, "_ingestion_timestamp")
                 /\ ~\E c \in BusinessColumns(df) : HasDateInName(c))
                => (r.score = One /\ r.passed)
           /\ CountedSubChecks(df) = 0 => (r.score = One /\ r.passed)
           /\ CountedSubChecks(df) > 0 =>
                /\ r.score = Frac(passing, CountedSubChecks(df))
                /\ r.passed <=> (10 * passing >= 8 * CountedSubChecks(df))

\* The date-like column txn_date did not parse and was skipped: only the
\* ingestion sub-check was counted.
C17_Witness ==
    /\ checks["freshness"].present
    /\ df.n > 0
    /\ HasColumn(df, "txn_date") /\ HasColumn(df, "_ingestion_timestamp")
    /\ df.data["txn_date"][1].kind = "str"
    /\ Len(checks["freshness"].freshness_checks) = 1
    /\ checks["freshness"].score = One

\* No ingestion timestamp, no date-like column: score 1.0 and passed.
C17_WitnessNoSubCheck ==
    /\ checks["freshness"].present
    /\ df.n > 0
    /\ df.present = {"amount"}
    /\ checks["freshness"].freshness_checks = <<>>
    /\ checks["freshness"].score = One /\ checks["freshness"].passed
\* C18: two calls that both write quarantine output use distinct file names:
\* no file of the first call is overwritten by the second.
C18_QuarantineFileNamesDistinct ==
    (firstCall.present /\ firstCall.written # <<>> /\ written # <<>>) =>
        \A i \in 1..Len(firstCall.written), j \in 1..Len(written) :
            FileName(firstCall.written[i]) # FileName(written[j])

\* C19 as stated: the second validation of the same dataset under the same
\* configuration and stored schema gives every check the score and the
\* passed flag of the first, whatever time passed between the two calls.
C19_SecondCallSameResults ==
    firstCall.present =>
        \A name \in CheckNameSet :
            checks[name].present =>
                Verdict(checks[name]) = Verdict(firstCall.checks[name])

\* C20: the report of a returned result, written as a JSON document and
\* parsed back, holds the overall score and the passed flag of the result
\* and exactly the five check_type keys.
C20_ReportRoundTrip ==
    report.present =>
        LET back == JsonLoads(JsonDumps(report)) IN
        /\ report.overall_assessment.score.repr = result.overall_score
        /\ report.overall_assessment.passed.repr
             = (IF result.passed THEN "True" ELSE "False")
        /\ PyEquals(back.overall_assessment.score, report.overall_assessment.score)
        /\ PyEquals(back.overall_assessment.passed, report.overall_assessment.passed)
        /\ back.detailed_results = CheckNameSet
\* C19, amended: the second validation gives the schema, business-rule,
\* completeness and consistency checks the score and passed flag of the
\* first, whatever the first call wrote and whatever time passed; the
\* freshness check has the score and flag of the first when both calls read
\* the same clock hour.
C19_SecondCallSameResultsButFreshness ==
    firstCall.present =>
        /\ \A name \in CheckNameSet \ {"freshness"} :
             checks[name].present =>
                 Verdict(checks[name]) = Verdict(firstCall.checks[name])
        /\ (checks["freshness"].present /\ now = firstCall.now) =>
             Verdict(checks["freshness"]) = Verdict(firstCall.checks["freshness"])

\* A second call returned a day after a first call that had quarantined the
\* dataset.
C19_Witness ==
    /\ firstCall.present
    /\ pc = "done"
    /\ firstCall.written # <<>>
    /\ now > firstCall.now
    /\ \E c \in BusinessColumns(df) : TRUE
\* The check categories whose CheckResult has passed = false.
FailingChecks == { name \in CheckNameSet : ~checks[name].passed }

\* C21: the recommendations of a report hold exactly one message for each
\* check category that failed and none for a category that passed; their
\* number is the number of failing checks.
C21_OneRecommendationPerFailingCheck ==
    report.present =>
        LET recs == report.recommendations IN
        /\ { recs[k] : k \in 1..Len(recs) } = FailingChecks
        /\ \A i, j \in 1..Len(recs) : recs[i] = recs[j] => i = j
        /\ Len(recs) = Cardinality(FailingChecks)

\* A report of a result in which the completeness and freshness checks
\* failed and the other three passed.
C21_Witness ==
    /\ report.present
    /\ FailingChecks = {"completeness", "freshness"}
    /\ report.recommendations = <<"completeness", "freshness">>

\* The rows of the successful entries of sources_processed.
RECURSIVE SuccessRows(_)
SuccessRows(entries) ==
    IF entries = <<>> THEN 0
    ELSE LET e == entries[1] IN
         (IF e.status = "success" THEN e.rows_ingested ELSE 0)
         + SuccessRows(Tail(entries))

\* run_ingestion_pipeline ended as the contract says: 'completed', one entry
\* per configured source in order, failed entries with an error, and the
\* total the sum of the successful rows.
IngestionContract ==
    LET done == ingestion.sources_processed IN
    /\ ingestion.status = "completed"
    /\ Len(done) = Len(sources)
    /\ \A k \in 1..Len(done) :
        /\ done[k].source_name = sources[k].name
        /\ done[k].status \in {"success", "failed"}
        /\ done[k].status = "failed" => done[k].error # ""
    /\ ingestion.total_rows_ingested = SuccessRows(done)

\* C22: every run of run_ingestion_pipeline ends 'completed' with every
\* configured source exactly once in sources_processed, as success or as
\* failed with an error, and total_rows_ingested the sum of the rows of the
\* successful sources.
C22_IngestionIsolatesFailures == ppc = "ingested" => IngestionContract

\* The same, for runs whose source entries all hold name, type and path.
C22_HoldsForWellFormedSources ==
    (ppc = "ingested" /\ \A k \in 1..Len(sources) : WellFormed(sources[k]))
        => IngestionContract

\* A run in which the first source failed and a later one succeeded.
C22_FailureThenSuccess ==
    /\ ppc = "ingested"
    /\ Len(ingestion.sources_processed) = 2
    /\ ingestion.sources_processed[1].status = "failed"
    /\ ingestion.sources_processed[2].status = "success"
    /\ ingestion.total_rows_ingested = 3

\* Every attempt of the call so far failed.
AllAttemptsFailed == \A k \in 1..Len(attempts) : ~attempts[k].ok

\* C23: one call of ingest_csv makes at most 3 attempts; no attempt follows
\* a successful one, whose data the call returns; and while fewer than 3
\* attempts were made and all failed, the call has not ended, so that two
\* failures and a success are exactly 3 attempts and a successful return.
C23_AtMostThreeAttempts ==
    (mode = "direct" /\ call.fn = "csv") =>
        /\ Len(attempts) <= 3
        /\ \A k \in 1..(Len(attempts) - 1) : ~attempts[k].ok
        /\ (attempts # <<>> /\ attempts[Len(attempts)].ok) =>
              /\ ppc = "call_done"
              /\ callResult.state = "returned"
              /\ callResult.rows = attempts[Len(attempts)].rows
        /\ (Len(attempts) < 3 /\ AllAttemptsFailed) =>
              /\ ppc = "attempt"
              /\ callResult.state = "none"

\* Two failed attempts of ingest_csv, then a third that reads 3 rows, which
\* the call returns.
C23_Witness ==
    /\ mode = "direct"
    /\ call.fn = "csv"
    /\ ppc = "call_done"
    /\ Len(attempts) = 3
    /\ ~attempts[1].ok
    /\ ~attempts[2].ok
    /\ attempts[3] = Succeeded(3)
    /\ callResult = [state |-> "returned", rows |-> 3, error |-> ""]

\* C24: ingest_csv on a file that does not exist ends with
\* FileNotFoundError reaching the caller, and ingest_json on a file of
\* invalid JSON ends with json.JSONDecodeError reaching the caller.
C24_OriginalErrorReachesCaller ==
    (mode = "direct" /\ ppc = "call_done") =>
        /\ (call.fn = "csv" /\ call.file = "missing") =>
              (callResult.state = "raised" /\ callResult.error = "FileNotFoundError")
        /\ (call.fn = "json" /\ call.file = "invalid_json") =>
              (callResult.state = "raised" /\ callResult.error = "JSONDecodeError")

\* The checkers that have run in the current call are the first k of the
\* order schema, business rules, completeness, consistency, freshness.
RanInOrder ==
    \A k \in 1..(Len(CheckNames) - 1) :
        checks[CheckNames[k + 1]].present => checks[CheckNames[k]].present

AllFiveRan == \A name \in CheckNameSet : checks[name].present

\* The overall score, the decision or the quarantine step has happened.
Aggregated ==
    \/ result.returned
    \/ result.overall_score # Zero
    \/ written # <<>>
    \/ raisedBy = "quarantine_write"

\* C25: in each validate_data call the five checkers run exactly once each
\* in the order schema, business rules, completeness, consistency,
\* freshness, so that a call that has ended has run all five, and the
\* overall score, the decision and the quarantine step come only after all
\* five.
C25_FiveCheckersOnceInOrder ==
    /\ RanInOrder
    /\ Aggregated => AllFiveRan
    /\ pc \in {"done", "reported", "raised"} => AllFiveRan

\* The order and the place of the aggregation alone, on every call.
C25_OrderAndAggregationLast ==
    /\ RanInOrder
    /\ Aggregated => AllFiveRan
    /\ pc \in {"done", "reported"} => AllFiveRan

\* A checker that has run in a call does not run again in that call: its
\* result stays as it is until the call ends.
C25_EachCheckerAtMostOnce ==
    [][\A name \in CheckNameSet :
          (checks[name].present /\ pc \notin {"idle", "done", "reported", "raised"})
              => checks'[name] = checks[name]]_allVars

\* A validate_data call is in progress or has just ended.
InCall == pc \notin {"idle"}

\* C26: validate_data never modifies the input dataset: from the call to
\* its end, through the five checkers and the quarantine step, the rows,
\* columns and values of the dataset stay the same.
C26_DatasetNeverModified ==
    [][(InCall /\ pc' # "idle") => df' = df]_allVars

\* A call on a dataset of two rows that failed the schema check has written
\* its quarantine files.
C26_Witness ==
    /\ pc = "done"
    /\ Len_df(df) = 2
    /\ written # <<>>
    /\ result.quarantined_rows = 2

\* The check kinds the rule engine evaluates.
KnownChecks == {"not_null", "greater_than", "date_range"}

\* The rules of the configuration on a column of the dataset whose check
\* kind is not one the engine evaluates.
UnknownKindRules ==
    { i \in 1..Len(config.rules) :
        /\ HasColumn(df, config.rules[i].column)
        /\ config.rules[i].check \notin KnownChecks }

\* C27: a rule on an existing column whose check kind is none of not_null,
\* greater_than and date_range has its own entry in rule_results, a scored
\* one with score 0, passed false and no error, and the business_rules score
\* is the mean over all rules with that 0 in it.
C27_UnknownCheckScoresZero ==
    (checks["business_rules"].present /\ UnknownKindRules # {}) =>
        LET b == checks["business_rules"]
            rr == b.rule_results
            D == RuleDenProduct(rr)
        IN /\ Len(rr) = Len(config.rules)
           /\ \A i \in UnknownKindRules :
                /\ rr[i].rule = config.rules[i].name
                /\ rr[i].scored
                /\ rr[i].score = Zero
                /\ ~rr[i].passed
                /\ rr[i].error = ""
                /\ rr[i].passed_rows = 0
                /\ rr[i].total_rows = Len_df(df)
           /\ b.score.num * D * Len(config.rules) = RuleNumSum(rr, D) * b.score.den
           /\ raisedBy # "business_rules"

\* A fully passing not_null rule and a regex rule on the amount column of a
\* dataset of two rows: the regex rule scores 0 and the mean is 1/2.
C27_Witness ==
    /\ checks["business_rules"].present
    /\ config.rules = <<IngestNotNull, AmountRegex>>
    /\ Len_df(df) = 2
    /\ UnknownKindRules = {2}
    /\ checks["business_rules"].rule_results[1].score = One
    /\ checks["business_rules"].rule_results[2].score = Zero
    /\ checks["business_rules"].score = Frac(1, 2)

\* C28: with coverage_threshold = 0.95, a returned result with passed =
\* true has schema and consistency checks that passed with score 1.0 and
\* business_rules, completeness and freshness scores of at least 0.75; a
\* dataset that fails the schema check ends FAILED.
C28_PassedBoundsEveryScore ==
    (result.returned /\ CoverageThreshold(config) = Frac(95, 100)) =>
        /\ result.passed =>
              /\ checks["schema_validation"].passed
              /\ checks["schema_validation"].score = One
              /\ checks["consistency"].passed
              /\ checks["consistency"].score = One
              /\ \A name \in {"business_rules", "completeness", "freshness"} :
                    FGe(checks[name].score, Frac(3, 4))
        /\ ~checks["schema_validation"].passed => ~result.passed

\* A result that passed at the threshold 0.95 with a business_rules score of
\* exactly 0.75 and the other four scores 1.0.
C28_Witness ==
    /\ result.returned
    /\ CoverageThreshold(config) = Frac(95, 100)
    /\ result.passed
    /\ checks["business_rules"].score = Frac(3, 4)
    /\ result.overall_score = Frac(95, 100)

\* C29: in every result that validate_data returns, quarantined_rows is 0 or
\* total_rows; a passed result has quarantined_rows = 0 and no quarantine
\* file, whatever the threshold and the schema check are; and the pair of
\* the data file and the metadata file is written iff quarantined_rows > 0.
C29_QuarantineAllOrNothing ==
    result.returned =>
        /\ result.quarantined_rows \in {0, result.total_rows}
        /\ result.passed => (result.quarantined_rows = 0 /\ written = <<>>)
        /\ written # <<>> <=> result.quarantined_rows > 0
        /\ written # <<>> =>
              /\ Len(written) = 2
              /\ { written[k].file : k \in 1..2 } = {"parquet", "metadata"}
              /\ \A k \in 1..2 : Cardinality(written[k].rows) = result.total_rows

\* A result that passed at the threshold 0.8 although the schema check of
\* its two rows failed: no row is quarantined and no file written.
C29_Witness ==
    /\ result.returned
    /\ result.passed
    /\ ~checks["schema_validation"].passed
    /\ config.has_threshold
    /\ result.total_rows = 2
    /\ result.quarantined_rows = 0
    /\ written = <<>>

\* A failed result of two rows, both quarantined into the two files.
C29_WitnessQuarantined ==
    /\ result.returned
    /\ ~result.passed
    /\ result.total_rows = 2
    /\ result.quarantined_rows = 2
    /\ Len(written) = 2

\* C30: run_full_pipeline returns 'completed' only if the validation of
\* every Bronze file assessed in the run passed: an assessed file whose
\* validation returned passed = false, or whose assessment raised, makes the
\* final status 'failed'.
C30_CompletedOnlyIfEveryFilePassed ==
    (mode = "full" /\ ppc = "finished" /\ pipeline.status = "completed") =>
        \A k \in 1..Len(assessed) : assessed[k].outcome = "passed"

\* The same, for an assessment that raised.
C30_RaisedAssessmentFailsTheRun ==
    (mode = "full" /\ ppc = "finished" /\ pipeline.status = "completed") =>
        \A k \in 1..Len(assessed) : assessed[k].outcome # "raises"

\* The same, for runs in which no two Bronze files share the part of the
\* source name before the first underscore.
C30_HoldsForDistinctFirstTokens ==
    (/\ mode = "full" /\ ppc = "finished" /\ pipeline.status = "completed"
     /\ \A i, j \in 1..Len(assessed) :
           FirstToken(assessed[i].file) = FirstToken(assessed[j].file) => i = j)
        => \A k \in 1..Len(assessed) : assessed[k].outcome = "passed"

=============================================================================
